---- MODULE Spec2Model ----
(***************************************************************************)
(* The keyspace engine of xylon (src/db.rs), the command executor          *)
(* (src/cmd.rs, RedisCommand::apply) and the expiration agent              *)
(* (src/db.rs, expiration_task) as one state machine.                      *)
(*                                                                         *)
(* The clock counts ticks of half a second.  Every command is a task; a    *)
(* task that has to suspend (SET inserting a key with an expiry, DEL over  *)
(* several keys) is kept in `tasks` until it completes.  `last` records    *)
(* the command that completed (or panicked) in the latest step, together   *)
(* with the locals of Db::set it completed with.                           *)
(***************************************************************************)
EXTENDS Integers, Sequences, FiniteSets, TLC

\* ---------------------------------------------------------------- bounds
MaxTime == 2
MaxCmds == 3

\* ------------------------------------------------------------ input sets
Keys == {"k1", "k2"}
\* The value written by the t-th command: every command writes its own value.
ValueOf(t) == "v" \o ToString(t)
Shards == {0, 1}
Behaviours == {"Force", "OnlyIfNotExists", "OnlyIfExists"}
TicksPerSec == 2
MillisPerTick == 1000 \div TicksPerSec
\* Durations of the EX / PX options, in ticks (PX 500).
Expiries == {1}
DelLists == {<<"k1">>, <<"k1", "k2">>, <<"k2", "k2">>}
TaskIds == 1..MaxCmds
\* DashMap hashes with a per-process RandomState: two keys may or may not share
\* a shard.  Shard numbers are interchangeable, so k1 is put in shard 0.
ShardAssignments == {f \in [Keys -> Shards] : f["k1"] = 0}

\* Option::None of Option<Instant>, Option<Duration> and Option<Key>.
NoInstant == -1
NoDuration == -1
NoKey == -1
NoTask == 0

\* ------------------------------------------------------------ proto::Value
SimpleString(s) == [tag |-> "SimpleString", str |-> s, int |-> 0]
BulkString(s) == [tag |-> "BulkString", str |-> s, int |-> 0]
Integer(i) == [tag |-> "Integer", str |-> "", int |-> i]
NullString == [tag |-> "NullString", str |-> "", int |-> 0]

\* Option<Value>, the result of Db::get and Db::set.
NoneValue == [some |-> FALSE, val |-> NullString]
SomeValue(v) == [some |-> TRUE, val |-> v]

\* --------------------------------------------- proto.rs: RedisProtocol
\* Bytes are one-character strings, buffers sequences of them.
CR == "\r"
LF == "\n"
CRLF == <<CR, LF>>
Digits == <<"0", "1", "2", "3", "4", "5", "6", "7", "8", "9">>

\* A Value on the wire: `str` is the payload of a string or an error, `int`
\* that of an Integer, `items` the children of an Array.
Value(tag, str, int, items) == [tag |-> tag, str |-> str, int |-> int, items |-> items]

\* src[a..] and src[a..b] of a slice, offsets counted from 0.
From(src, a) == SubSeq(src, a + 1, Len(src))
Slice(src, a, b) == SubSeq(src, a + 1, b)

\* itoa::Buffer::format
RECURSIVE FormatNat(_)
FormatNat(n) ==
    IF n < 10 THEN <<Digits[n + 1]>> ELSE FormatNat(n \div 10) \o <<Digits[(n % 10) + 1]>>

itoa(n) == IF n < 0 THEN <<"-">> \o FormatNat(0 - n) ELSE FormatNat(n)

IsDigit(b) == \E d \in 1..10 : Digits[d] = b

\* The digits a text starts with: how many they are and the number they spell.
RECURSIVE Radix10(_, _, _)
Radix10(text, used, number) ==
    IF text # << >> /\ IsDigit(Head(text))
    THEN Radix10(Tail(text), used + 1,
                 10 * number + (CHOOSE d \in 0..9 : Digits[d + 1] = Head(text)))
    ELSE [used |-> used, number |-> number]

\* atoi::atoi: an optional sign and the digits that follow it; None when no
\* byte of the text was used.
atoi(text) ==
    LET signed == text # << >> /\ Head(text) \in {"-", "+"}
        digits == IF signed THEN Tail(text) ELSE text
        used == (IF signed THEN 1 ELSE 0) + Radix10(digits, 0, 0).used
        number == Radix10(digits, 0, 0).number
    IN [ok |-> used > 0,
        int |-> IF signed /\ Head(text) = "-" THEN 0 - number ELSE number]

\* Encoder::encode.  Value::Error is written with the type byte '+'.
RECURSIVE encode(_)
encode(item) ==
    CASE item.tag = "SimpleString" -> <<"+">> \o item.str \o CRLF
      [] item.tag = "Error" -> <<"+">> \o item.str \o CRLF
      [] item.tag = "Integer" -> <<":">> \o itoa(item.int) \o CRLF
      [] item.tag = "BulkString" ->
           <<"$">> \o itoa(Len(item.str)) \o CRLF \o item.str \o CRLF
      [] item.tag = "Array" ->
           LET RECURSIVE EncodeAll(_)
               EncodeAll(array) ==
                   IF array = << >> THEN << >>
                   ELSE encode(Head(array)) \o EncodeAll(Tail(array))
           IN <<"*">> \o itoa(Len(item.items)) \o CRLF \o EncodeAll(item.items)
      [] item.tag = "NullString" -> <<"$", "-", "1">> \o CRLF
      [] item.tag = "NullArray" -> <<"*", "-", "1">> \o CRLF

\* find_next_crlf: the offset of the first CR that an LF follows, or NoCrlf.
NoCrlf == -1
find_next_crlf(input) ==
    LET found == {i \in 0..(Len(input) - 2) : input[i + 1] = CR /\ input[i + 2] = LF}
    IN IF found = {} THEN NoCrlf ELSE CHOOSE i \in found : \A j \in found : i <= j

\* Result<OptionalWithMissingHint<ParsedValue>, Error>
NoValue == Value("NullString", << >>, 0, << >>)
ParsedSome(value, offset) == [kind |-> "Some", value |-> value, offset |-> offset, hint |-> 0, error |-> ""]
ParsedMissing(amount) == [kind |-> "Missing", value |-> NoValue, offset |-> 0, hint |-> amount, error |-> ""]
ParsedNoClue == [kind |-> "NoClue", value |-> NoValue, offset |-> 0, hint |-> 0, error |-> ""]
ParsedErr(error) == [kind |-> "Err", value |-> NoValue, offset |-> 0, hint |-> 0, error |-> error]

\* Mutant of ChildNotParsed: the array ends at the child that has not arrived.
ChildNotParsed_EndsArray(child, offset, items) == ParsedSome(Value("Array", << >>, 0, items), offset)

\* `other => return Ok(other)` of the '*' arm: the child's Missing or NoClue
\* (or its Err, by `?`) is the result of the array.
ChildNotParsed(child, offset, items) == child

\* `rest.len() < length + 2` of the '$' arm, negated: payload and CRLF are there.
BulkArrived(rest, length) == Len(rest) >= length + 2

\* Value::parse.  Lengths below -1 do not occur in the frames of the model.
RECURSIVE ValueParse(_)
ValueParse(src) ==
    LET crlf_start == find_next_crlf(From(src, 1))
        bytes == Slice(src, 1, crlf_start + 1)
        header == crlf_start + 3
        integer == atoi(bytes)
        length == integer.int
        rest == From(src, header)
        RECURSIVE ParseItems(_, _, _)
        ParseItems(n, offset, items) ==
            IF n = 0 THEN ParsedSome(Value("Array", << >>, 0, items), offset)
            ELSE LET child == ValueParse(From(src, offset))
                 IN IF child.kind = "Some"
                    THEN ParseItems(n - 1, offset + child.offset, Append(items, child.value))
                    ELSE ChildNotParsed(child, offset, items)
    IN IF Len(src) < 1 THEN ParsedMissing(1)
       ELSE CASE src[1] = "+" ->
                   IF crlf_start = NoCrlf THEN ParsedNoClue
                   ELSE ParsedSome(Value("SimpleString", bytes, 0, << >>), header)
              [] src[1] = "-" ->
                   IF crlf_start = NoCrlf THEN ParsedNoClue
                   ELSE ParsedSome(Value("Error", bytes, 0, << >>), header)
              [] src[1] = ":" ->
                   IF crlf_start = NoCrlf THEN ParsedNoClue
                   ELSE IF ~integer.ok THEN ParsedErr("NotAnInteger")
                   ELSE ParsedSome(Value("Integer", << >>, integer.int, << >>), header)
              [] src[1] = "$" ->
                   IF crlf_start = NoCrlf THEN ParsedNoClue
                   ELSE IF ~integer.ok THEN ParsedErr("NotAnInteger")
                   ELSE IF length = -1 THEN ParsedSome(Value("NullString", << >>, 0, << >>), header)
                   ELSE IF ~BulkArrived(rest, length)
                        THEN ParsedMissing(length + 2 - Len(rest))
                   ELSE IF Slice(rest, length, length + 2) # CRLF THEN ParsedErr("ExpectedCrlf")
                   ELSE ParsedSome(Value("BulkString", Slice(rest, 0, length), 0, << >>),
                                   header + length + 2)
              [] src[1] = "*" ->
                   IF crlf_start = NoCrlf THEN ParsedNoClue
                   ELSE IF ~integer.ok THEN ParsedErr("NotAnInteger")
                   ELSE IF length = -1 THEN ParsedSome(Value("NullArray", << >>, 0, << >>), header)
                   ELSE ParseItems(length, header, << >>)
              [] OTHER -> ParsedErr("UnknownType")

\* Decoder::decode: Ok(Some(value)) after src.advance(offset), Ok(None) with
\* the buffer as it was (src.reserve does not change its contents), or Err.
Decode(src) ==
    LET parsed == ValueParse(src)
    IN CASE parsed.kind = "Some" ->
              [out |-> [kind |-> "Some", value |-> parsed.value, error |-> ""],
               rest |-> From(src, parsed.offset)]
         [] parsed.kind \in {"Missing", "NoClue"} ->
              [out |-> [kind |-> "None", value |-> NoValue, error |-> ""], rest |-> src]
         [] OTHER ->
              [out |-> [kind |-> "Err", value |-> NoValue, error |-> parsed.error], rest |-> src]

\* A frame between Encoder and Decoder: `stage` is "idle" | "encoded" |
\* "received" | "decoded", `by` who wrote it, `wire` the bytes of the frame, `value` the Value
\* they encode, `tail` the bytes that follow the frame, `src` the Decoder's
\* buffer, `whole` whether all of the frame has arrived, `out` what decode
\* returned and `rest` the buffer it left.
NoCodec ==
    [stage |-> "idle", by |-> "", value |-> NoValue, wire |-> << >>, tail |-> << >>, src |-> << >>,
     whole |-> FALSE, out |-> Decode(<< >>).out, rest |-> << >>]

VARIABLES
    entries,    \* DbInner.entries: key -> Entry, domain = the keys present
    shardOf,    \* the shard DashMap's hasher puts each key in
    lock,       \* per shard: the task holding its write lock, or NoTask
    mailbox,    \* the mpsc channel to the expiration task
    queue,      \* the DelayQueue's slab: Key -> [value, deadline]
    free,       \* the slab's free list, most recently freed first
    agentPc,    \* "select" | "remove_raw" | "panicked"
    item,       \* the expired item the agent is about to remove_raw
    has_items,  \* the agent's has_items local
    tasks,      \* the suspended command tasks
    started,    \* number of commands started so far
    now,        \* Instant::now(), in ticks
    last,       \* the command that completed in the latest step
    far_in,     \* PttlSpec: a remaining time, in units of 2^50 seconds
    far_out,    \* PttlSpec: what Db::pttl returns for it, in units of 2^50 ms
    parse_in,   \* ParseSpec: the decoded frame handed to the command task
    parse_out,  \* ParseSpec: what the command task makes of it
    conns,      \* ConnSpec: per connection, the tasks of `handle` and their channels
    agent,      \* ConnSpec: the expiration agent: "serving" | "blocked" | "dead"
    codec       \* CodecSpec: a frame on its way through Encoder and Decoder

vars == <<entries, shardOf, lock, mailbox, queue, free, agentPc, item,
          has_items, tasks, started, now, last, far_in, far_out,
          parse_in, parse_out, conns, agent, codec>>

FarVars == <<far_in, far_out>>
NoResult == [done |-> FALSE, val |-> 0]
ParseVars == <<parse_in, parse_out>>
\* The variables of the other specifications, which the keyspace leaves alone.
ConnVars == <<conns, agent>>
CodecVars == <<codec>>
AuxVars == <<FarVars, ParseVars, ConnVars, CodecVars>>

\* A decoded frame: Value::Array(buffer), or another Value at top level.
Array(buffer) == [array |-> TRUE, buffer |-> buffer]
NotArray(v) == [array |-> FALSE, buffer |-> <<v>>]
NoFrame == Array(<< >>)
NoParse ==
    [done |-> FALSE, kind |-> "", name |-> "", expiry |-> -1, seconds |-> 0,
     behaviour |-> "", return_old |-> FALSE, keep_ttl |-> FALSE,
     reply |-> NullString]

\* The client connections, and the state of `handle` for one of them right
\* after accept: `socket` is what the client has sent and the decoder has not
\* yet yielded, `reader` the read loop ("reading" | "closed" | "errored"),
\* `ctasks` the command tasks spawned so far, `chan` the reply channel, `writer`
\* the reply-writer task, `wire` the replies written to the client, `client`
\* whether the peer is still there; `pushed` lists the requests in the order
\* their replies were pushed and `at_error` counts the replies written when
\* the codec raised its error.
Conns == {1, 2}
NoConn ==
    [socket |-> << >>, reader |-> "reading", ctasks |-> << >>, chan |-> << >>,
     writer |-> "running", wire |-> << >>, client |-> "open", pushed |-> << >>,
     at_error |-> -1, nsent |-> 0]

\* ------------------------------------------------------------- db::Entry
Entry(value, expires_at, expiration_key) ==
    [value |-> value, expires_at |-> expires_at, expiration_key |-> expiration_key]

MapRemove(f, k) == [x \in (DOMAIN f) \ {k} |-> f[x]]
MapPut(f, k, v) == [x \in (DOMAIN f) \cup {k} |-> IF x = k THEN v ELSE f[x]]

\* ------------------------------------------------- db::ExpirationUpdate
RemoveMsg(key) ==
    [type |-> "Remove", key |-> key, timeout |-> NoDuration, value |-> "", return_key |-> NoTask]
ResetMsg(key, timeout) ==
    [type |-> "Reset", key |-> key, timeout |-> timeout, value |-> "", return_key |-> NoTask]
InsertMsg(value, timeout, return_key) ==
    [type |-> "Insert", key |-> NoKey, timeout |-> timeout, value |-> value, return_key |-> return_key]

\* -------------------------------------------------------------- locking
\* Mutant of LockFree: the shard lock is not honoured.
LockFree_NoLock(k) == TRUE

\* DashMap::entry / get / remove take the lock of the key's shard and block
\* while another task holds it.
LockFree(k) == lock[shardOf[k]] = NoTask

\* The agent's receiver is dropped when the agent task has panicked, and
\* then UnboundedSender::send returns Err.
SendOk == agentPc # "panicked"

\* ------------------------------------------------------- Db::ttl, Db::pttl
Ttl(k) ==
    IF k \in DOMAIN entries
    THEN IF entries[k].expires_at # NoInstant
         THEN IF entries[k].expires_at >= now
              THEN (entries[k].expires_at - now) \div TicksPerSec
              ELSE -2
         ELSE -1
    ELSE -2

Pttl(k) ==
    IF k \in DOMAIN entries
    THEN IF entries[k].expires_at # NoInstant
         THEN IF entries[k].expires_at >= now
              THEN (entries[k].expires_at - now) * MillisPerTick
              ELSE -2
         ELSE -1
    ELSE -2

\* Db::get
Get(k) == IF k \in DOMAIN entries THEN SomeValue(entries[k].value) ELSE NoneValue

\* ---------------------------------------------------------------- Db::set
ShouldInsert(behaviour, occupied) ==
    CASE behaviour = "Force" -> TRUE
      [] behaviour = "OnlyIfExists" -> occupied
      [] behaviour = "OnlyIfNotExists" -> ~occupied

\* Mutant of OccupiedUpdate: a replace without expiry drops the TTL and the
\* handle even under KEEPTTL.
OccupiedUpdate_DropsTtl(old, value, expire, keep_ttl) ==
    IF expire # NoDuration
    THEN Entry(value, now + expire, old.expiration_key)
    ELSE Entry(value, NoInstant, NoKey)

\* The Occupied arm up to the send: the value is replaced, and expires_at is
\* rewritten only when an expiry is given without KEEPTTL.
OccupiedUpdate(old, value, expire, keep_ttl) ==
    IF ~keep_ttl /\ expire # NoDuration
    THEN Entry(value, now + expire, old.expiration_key)
    ELSE Entry(value, old.expires_at, old.expiration_key)

\* The messages the Occupied arm sends.
OccupiedSends(old, expire, keep_ttl) ==
    IF ~keep_ttl /\ expire # NoDuration
    THEN <<ResetMsg(old.expiration_key, expire)>>
    ELSE << >>

\* old.expiration_key.unwrap() and send(..).unwrap() in the Occupied arm.
OccupiedPanics(old, expire, keep_ttl) ==
    /\ ~keep_ttl
    /\ expire # NoDuration
    /\ (old.expiration_key = NoKey \/ ~SendOk)

\* The Entry the Vacant arm builds.
VacantEntry(value, expire, expiration_key) ==
    IF expire # NoDuration
    THEN Entry(value, now + expire, expiration_key)
    ELSE Entry(value, NoInstant, NoKey)

\* ------------------------------------------------- RedisCommand::apply, Set
SetReply(return_old, old) ==
    IF return_old
    THEN IF old.some THEN old.val ELSE NullString
    ELSE IF old.some THEN SimpleString("OK") ELSE NullString

\* ------------------------------------------------------------ task records
IdleTask ==
    [pc |-> "idle", key |-> "", value |-> NullString, expire |-> NoDuration,
     behaviour |-> "", return_old |-> FALSE, keep_ttl |-> FALSE,
     rx |-> NoKey, keys |-> << >>, count |-> 0, existed |-> 0]

NoLast ==
    [op |-> "", key |-> "", value |-> NullString, expire |-> NoDuration,
     behaviour |-> "", return_old |-> FALSE, keep_ttl |-> FALSE,
     occupied |-> FALSE, prior |-> Entry(NullString, NoInstant, NoKey),
     proceeded |-> FALSE, sent |-> << >>, outcome |-> "", reply |-> NullString,
     existed |-> 0]

SetLast(t, key, value, expire, behaviour, return_old, keep_ttl, occupied, prior, proceeded, sent, outcome, reply) ==
    [op |-> "Set", key |-> key, value |-> value, expire |-> expire,
     behaviour |-> behaviour, return_old |-> return_old, keep_ttl |-> keep_ttl,
     occupied |-> occupied, prior |-> prior,
     proceeded |-> proceeded, sent |-> sent, outcome |-> outcome, reply |-> reply,
     existed |-> 0]

ReadLast(op, t, key, reply) ==
    [NoLast EXCEPT !.op = op, !.key = key,
                   !.occupied = (key \in DOMAIN entries),
                   !.prior = IF key \in DOMAIN entries THEN entries[key]
                             ELSE Entry(NullString, NoInstant, NoKey),
                   !.outcome = "reply", !.reply = reply]

Init ==
    /\ entries = << >>
    /\ shardOf \in ShardAssignments
    /\ lock = [s \in Shards |-> NoTask]
    /\ mailbox = << >>
    /\ queue = << >>
    /\ free = << >>
    /\ agentPc = "select"
    /\ item = ""
    /\ has_items = FALSE
    /\ tasks = [t \in TaskIds |-> IdleTask]
    /\ started = 0
    /\ now = 0
    /\ last = NoLast
    /\ far_in = 0
    /\ far_out = NoResult
    /\ parse_in = NoFrame
    /\ parse_out = NoParse
    /\ conns = [c \in Conns |-> NoConn]
    /\ agent = "serving"
    /\ codec = NoCodec

\* A new command task: the next task id, while the command budget lasts.
CanStart(t) == t = started + 1 /\ t \in TaskIds

AgentVars == <<queue, free, agentPc, item, has_items>>

\* The task the next command is spawned as.
NextTask == {started + 1} \cap TaskIds

\* ----------------------------------------------------------- SET (Db::set)
\* SET that does not proceed: `None` is returned and nothing is touched.
SetSkip(t, key, value, expire, behaviour, return_old, keep_ttl) ==
    /\ CanStart(t)
    /\ LockFree(key)
    /\ ~ShouldInsert(behaviour, key \in DOMAIN entries)
    /\ started' = t
    /\ last' = SetLast(t, key, value, expire, behaviour, return_old, keep_ttl,
                       key \in DOMAIN entries,
                       IF key \in DOMAIN entries THEN entries[key]
                       ELSE Entry(NullString, NoInstant, NoKey),
                       FALSE, << >>, "reply", SetReply(return_old, NoneValue))
    /\ UNCHANGED <<entries, shardOf, lock, mailbox, tasks, now>>
    /\ UNCHANGED AgentVars
    /\ UNCHANGED AuxVars

\* SET on a present key: the Occupied arm, run under the shard lock.
SetOccupied(t, key, value, expire, behaviour, return_old, keep_ttl) ==
    /\ CanStart(t)
    /\ LockFree(key)
    /\ key \in DOMAIN entries
    /\ ShouldInsert(behaviour, TRUE)
    /\ LET old == entries[key]
           panics == OccupiedPanics(old, expire, keep_ttl)
           sends == IF panics THEN << >> ELSE OccupiedSends(old, expire, keep_ttl)
       IN /\ entries' = MapPut(entries, key, OccupiedUpdate(old, value, expire, keep_ttl))
          /\ mailbox' = mailbox \o sends
          /\ last' = SetLast(t, key, value, expire, behaviour, return_old, keep_ttl,
                             TRUE, old, TRUE, sends,
                             IF panics THEN "panic" ELSE "reply",
                             IF panics THEN NullString
                             ELSE SetReply(return_old, SomeValue(old.value)))
    /\ started' = t
    /\ UNCHANGED <<shardOf, lock, tasks, now>>
    /\ UNCHANGED AgentVars
    /\ UNCHANGED AuxVars

\* SET on an absent key without expiry: the Vacant arm, no await.
SetVacant(t, key, value, behaviour, return_old, keep_ttl) ==
    /\ CanStart(t)
    /\ LockFree(key)
    /\ key \notin DOMAIN entries
    /\ ShouldInsert(behaviour, FALSE)
    /\ entries' = MapPut(entries, key, VacantEntry(value, NoDuration, NoKey))
    /\ last' = SetLast(t, key, value, NoDuration, behaviour, return_old, keep_ttl,
                       FALSE, Entry(NullString, NoInstant, NoKey), TRUE, << >>,
                       "reply", SetReply(return_old, SomeValue(NullString)))
    /\ started' = t
    /\ UNCHANGED <<shardOf, lock, mailbox, tasks, now>>
    /\ UNCHANGED AgentVars
    /\ UNCHANGED AuxVars

\* SET on an absent key with an expiry: Insert is sent and the task awaits
\* the handle, with the VacantEntry (the shard's write guard) still alive.
SetVacantSend(t, key, value, expire, behaviour, return_old) ==
    /\ CanStart(t)
    /\ LockFree(key)
    /\ key \notin DOMAIN entries
    /\ ShouldInsert(behaviour, FALSE)
    /\ started' = t
    /\ IF SendOk
       THEN /\ mailbox' = Append(mailbox, InsertMsg(key, expire, t))
            /\ lock' = [lock EXCEPT ![shardOf[key]] = t]
            /\ tasks' = [tasks EXCEPT ![t] =
                            [IdleTask EXCEPT !.pc = "await", !.key = key, !.value = value,
                                             !.expire = expire, !.behaviour = behaviour,
                                             !.return_old = return_old]]
            /\ last' = NoLast
       ELSE /\ last' = SetLast(t, key, value, expire, behaviour, return_old, FALSE,
                               FALSE, Entry(NullString, NoInstant, NoKey), TRUE, << >>,
                               "panic", NullString)
            /\ UNCHANGED <<mailbox, lock, tasks>>
    /\ UNCHANGED <<entries, shardOf, now>>
    /\ UNCHANGED AgentVars
    /\ UNCHANGED AuxVars

\* rx.await resolved with the handle: the Entry is built and inserted.
SetVacantInsert(t) ==
    /\ tasks[t].pc = "await"
    /\ tasks[t].rx # NoKey
    /\ LET c == tasks[t]
       IN /\ entries' = MapPut(entries, c.key, VacantEntry(c.value, c.expire, c.rx))
          /\ last' = SetLast(t, c.key, c.value, c.expire, c.behaviour, c.return_old, FALSE,
                             FALSE, Entry(NullString, NoInstant, NoKey), TRUE, <<"Insert">>,
                             "reply", SetReply(c.return_old, SomeValue(NullString)))
          /\ lock' = [lock EXCEPT ![shardOf[c.key]] = NoTask]
    /\ tasks' = [tasks EXCEPT ![t] = IdleTask]
    /\ UNCHANGED <<shardOf, mailbox, started, now>>
    /\ UNCHANGED AgentVars
    /\ UNCHANGED AuxVars

\* rx.await resolved with RecvError (the agent dropped return_key): unwrap panics.
SetVacantAbort(t) ==
    /\ tasks[t].pc = "await"
    /\ tasks[t].rx = NoKey
    /\ agentPc = "panicked"
    /\ LET c == tasks[t]
       IN /\ last' = SetLast(t, c.key, c.value, c.expire, c.behaviour, c.return_old, FALSE,
                             FALSE, Entry(NullString, NoInstant, NoKey), TRUE, <<"Insert">>,
                             "panic", NullString)
          /\ lock' = [lock EXCEPT ![shardOf[c.key]] = NoTask]
    /\ tasks' = [tasks EXCEPT ![t] = IdleTask]
    /\ UNCHANGED <<entries, shardOf, mailbox, started, now>>
    /\ UNCHANGED AgentVars
    /\ UNCHANGED AuxVars

\* ------------------------------------------------------ DEL (Db::remove)
\* One iteration of the `for key in keys` loop; the count is replied when
\* the list is exhausted.  A failed send panics after the entry is removed.
\* `existed` is the number of listed keys present when Db::remove was called.
DelKey(t, keys, count, existed) ==
    LET key == Head(keys)
        present == key \in DOMAIN entries
        sends == IF present /\ entries[key].expiration_key # NoKey
                 THEN <<RemoveMsg(entries[key].expiration_key)>> ELSE << >>
        panics == sends # << >> /\ ~SendOk
        count2 == IF present THEN count + 1 ELSE count
    IN /\ LockFree(key)
       /\ entries' = MapRemove(entries, key)
       /\ mailbox' = IF panics THEN mailbox ELSE mailbox \o sends
       /\ IF panics
          THEN /\ tasks' = [tasks EXCEPT ![t] = IdleTask]
               /\ last' = [NoLast EXCEPT !.op = "Del", !.key = key,
                                         !.occupied = present, !.proceeded = present,
                                         !.outcome = "panic", !.existed = existed]
          ELSE IF Tail(keys) = << >>
          THEN /\ tasks' = [tasks EXCEPT ![t] = IdleTask]
               /\ last' = [NoLast EXCEPT !.op = "Del", !.key = key,
                                         !.occupied = present, !.proceeded = present,
                                         !.sent = sends,
                                         !.outcome = "reply", !.reply = Integer(count2),
                                         !.existed = existed]
          ELSE /\ tasks' = [tasks EXCEPT ![t] =
                               [IdleTask EXCEPT !.pc = "del", !.keys = Tail(keys),
                                                !.count = count2, !.existed = existed]]
               /\ last' = [NoLast EXCEPT !.op = "Del", !.key = key,
                                         !.occupied = present, !.proceeded = present,
                                         !.sent = sends, !.outcome = "next",
                                         !.existed = existed]

DelStart(t, keys) ==
    /\ CanStart(t)
    /\ keys # << >>
    /\ DelKey(t, keys, 0, Cardinality({keys[i] : i \in DOMAIN keys} \cap DOMAIN entries))
    /\ started' = t
    /\ UNCHANGED <<shardOf, lock, now>>
    /\ UNCHANGED AgentVars
    /\ UNCHANGED AuxVars

DelEmpty(t) ==
    /\ CanStart(t)
    /\ started' = t
    /\ last' = [NoLast EXCEPT !.op = "Del", !.outcome = "reply",
                              !.reply = Integer(0)]
    /\ UNCHANGED <<entries, shardOf, lock, mailbox, tasks, now>>
    /\ UNCHANGED AgentVars
    /\ UNCHANGED AuxVars

DelNext(t) ==
    /\ tasks[t].pc = "del"
    /\ DelKey(t, tasks[t].keys, tasks[t].count, tasks[t].existed)
    /\ UNCHANGED <<shardOf, lock, started, now>>
    /\ UNCHANGED AgentVars
    /\ UNCHANGED AuxVars

\* ---------------------------------------- GET, TTL, PTTL (RedisCommand::apply)
GetCmd(t, key) ==
    /\ CanStart(t)
    /\ LockFree(key)
    /\ started' = t
    /\ last' = ReadLast("Get", t, key, IF Get(key).some THEN Get(key).val ELSE NullString)
    /\ UNCHANGED <<entries, shardOf, lock, mailbox, tasks, now>>
    /\ UNCHANGED AgentVars
    /\ UNCHANGED AuxVars

TtlCmd(t, key) ==
    /\ CanStart(t)
    /\ LockFree(key)
    /\ started' = t
    /\ last' = ReadLast("Ttl", t, key, Integer(Ttl(key)))
    /\ UNCHANGED <<entries, shardOf, lock, mailbox, tasks, now>>
    /\ UNCHANGED AgentVars
    /\ UNCHANGED AuxVars

PttlCmd(t, key) ==
    /\ CanStart(t)
    /\ LockFree(key)
    /\ started' = t
    /\ last' = ReadLast("Pttl", t, key, Integer(Pttl(key)))
    /\ UNCHANGED <<entries, shardOf, lock, mailbox, tasks, now>>
    /\ UNCHANGED AgentVars
    /\ UNCHANGED AuxVars

\* ------------------------------------------------------- expiration_task
\* slab::Slab::insert: the most recently vacated slot, else a new one.
SlabNextKey == IF free # << >> THEN Head(free) ELSE Cardinality(DOMAIN queue)

QueueItem(value, deadline) == [value |-> value, deadline |-> deadline]

\* DelayQueue::next yields an item whose deadline has been reached.
Expired(h) == h \in DOMAIN queue /\ queue[h].deadline <= now

\* First select! branch, `Some(item) = queue.next(), if has_items`: the item
\* leaves the queue and its slab slot is vacated.
AgentExpire ==
    /\ agentPc = "select"
    /\ has_items
    /\ \E h \in DOMAIN queue :
          /\ Expired(h)
          /\ item' = queue[h].value
          /\ queue' = MapRemove(queue, h)
          /\ free' = <<h>> \o free
    /\ agentPc' = "remove_raw"
    /\ last' = NoLast
    /\ UNCHANGED <<entries, shardOf, lock, mailbox, has_items, tasks, started, now>>
    /\ UNCHANGED AuxVars

\* db.remove_raw(item.get_ref()); has_items = !queue.is_empty()
AgentRemoveRaw ==
    /\ agentPc = "remove_raw"
    /\ LockFree(item)
    /\ entries' = MapRemove(entries, item)
    /\ has_items' = (DOMAIN queue # {})
    /\ agentPc' = "select"
    /\ item' = ""
    /\ last' = NoLast
    /\ UNCHANGED <<shardOf, lock, mailbox, queue, free, tasks, started, now>>
    /\ UNCHANGED AuxVars

\* Second select! branch: one update from the channel.  DelayQueue::remove
\* and DelayQueue::reset panic on a key that is not in the slab; the panic
\* ends the agent task and drops its queue and the receiver with the queued
\* updates.
AgentRecv ==
    /\ agentPc = "select"
    /\ mailbox # << >>
    /\ LET update == Head(mailbox)
       IN CASE update.type = "Remove" ->
                 IF update.key \in DOMAIN queue
                 THEN /\ queue' = MapRemove(queue, update.key)
                      /\ free' = <<update.key>> \o free
                      /\ mailbox' = Tail(mailbox)
                      /\ UNCHANGED <<agentPc, has_items, tasks>>
                 ELSE /\ agentPc' = "panicked"
                      /\ mailbox' = << >>
                      /\ queue' = << >>
                      /\ free' = << >>
                      /\ has_items' = FALSE
                      /\ UNCHANGED tasks
            [] update.type = "Reset" ->
                 IF update.key \in DOMAIN queue
                 THEN /\ queue' = [queue EXCEPT ![update.key].deadline = now + update.timeout]
                      /\ mailbox' = Tail(mailbox)
                      /\ UNCHANGED <<free, agentPc, has_items, tasks>>
                 ELSE /\ agentPc' = "panicked"
                      /\ mailbox' = << >>
                      /\ queue' = << >>
                      /\ free' = << >>
                      /\ has_items' = FALSE
                      /\ UNCHANGED tasks
            [] update.type = "Insert" ->
                 /\ queue' = MapPut(queue, SlabNextKey,
                                    QueueItem(update.value, now + update.timeout))
                 /\ free' = IF free # << >> THEN Tail(free) ELSE free
                 /\ tasks' = [tasks EXCEPT ![update.return_key].rx = SlabNextKey]
                 /\ has_items' = TRUE
                 /\ mailbox' = Tail(mailbox)
                 /\ UNCHANGED agentPc
    /\ last' = NoLast
    /\ UNCHANGED <<entries, shardOf, lock, item, started, now>>
    /\ UNCHANGED AuxVars

Tick ==
    /\ now < MaxTime
    /\ now' = now + 1
    /\ last' = NoLast
    /\ UNCHANGED <<entries, shardOf, lock, mailbox, tasks, started>>
    /\ UNCHANGED AgentVars
    /\ UNCHANGED AuxVars

\* The (expiry, keep_ttl) pairs CommandParser::parse builds for SET: an
\* expiry from EX / PX, KEEPTTL, or neither.
SetOptions ==
    {<<e, FALSE>> : e \in Expiries \cup {NoDuration}} \cup {<<NoDuration, TRUE>>}

Next ==
    \/ \E t \in NextTask, key \in Keys, behaviour \in Behaviours,
          return_old \in BOOLEAN, o \in SetOptions :
          SetSkip(t, key, BulkString(ValueOf(t)), o[1], behaviour, return_old, o[2])
    \/ \E t \in NextTask, key \in Keys, behaviour \in Behaviours,
          return_old \in BOOLEAN, o \in SetOptions :
          SetOccupied(t, key, BulkString(ValueOf(t)), o[1], behaviour, return_old, o[2])
    \/ \E t \in NextTask, key \in Keys, behaviour \in Behaviours,
          return_old \in BOOLEAN, keep_ttl \in BOOLEAN :
          SetVacant(t, key, BulkString(ValueOf(t)), behaviour, return_old, keep_ttl)
    \/ \E t \in NextTask, key \in Keys, behaviour \in Behaviours,
          return_old \in BOOLEAN, expire \in Expiries :
          SetVacantSend(t, key, BulkString(ValueOf(t)), expire, behaviour, return_old)
    \/ \E t \in TaskIds : SetVacantInsert(t)
    \/ \E t \in TaskIds : SetVacantAbort(t)
    \/ \E t \in NextTask, keys \in DelLists : DelStart(t, keys)
    \/ \E t \in NextTask : DelEmpty(t)
    \/ \E t \in TaskIds : DelNext(t)
    \/ \E t \in NextTask, key \in Keys : GetCmd(t, key)
    \/ \E t \in NextTask, key \in Keys : TtlCmd(t, key)
    \/ \E t \in NextTask, key \in Keys : PttlCmd(t, key)
    \/ AgentExpire
    \/ AgentRemoveRaw
    \/ AgentRecv
    \/ Tick

Spec == Init /\ [][Next]_vars

\* The tokio runtime polls every woken task again, select! picks among its
\* ready branches at random, and the clock advances: no step that stays
\* enabled is postponed forever.
FairSpec ==
    /\ Init /\ [][Next]_vars
    /\ WF_vars(AgentExpire)
    /\ WF_vars(AgentRemoveRaw)
    /\ WF_vars(AgentRecv)
    /\ WF_vars(\E t \in TaskIds : SetVacantInsert(t))
    /\ WF_vars(\E t \in TaskIds : SetVacantAbort(t))
    /\ WF_vars(\E t \in TaskIds : DelNext(t))
    /\ WF_vars(Tick)

\* ------------------------------------------- Db::pttl on far deadlines
\* Instant and Duration count seconds in 64 bits, so the deadline of an entry
\* can lie almost 2^63 seconds ahead.  remaining.as_millis() is a u128 and
\* `as i64` keeps its low 64 bits.  For a remaining time of c * 2^50 seconds
\* the milliseconds are 1000 * c * 2^50: counted in units of 2^50 ms the cast
\* is two's complement arithmetic modulo 2^64 / 2^50 = 2^14.
MaxFar == 60

FarTwoTo64 == 2^14

\* Duration::as_millis of c * 2^50 seconds, in units of 2^50 ms.
AsMillisFar(c) == c * 1000

\* `as i64` of a u128, in units of 2^50 ms.
AsI64Far(m) ==
    LET low == m % FarTwoTo64
    IN IF low >= FarTwoTo64 \div 2 THEN low - FarTwoTo64 ELSE low

\* Db::pttl for an entry whose deadline lies c * 2^50 seconds ahead.
PttlFar(c) == AsI64Far(AsMillisFar(c))

MainVars == <<entries, shardOf, lock, mailbox, queue, free, agentPc, item,
              has_items, tasks, started, now, last>>

PttlInit ==
    /\ entries = << >>
    /\ shardOf = [k \in Keys |-> 0]
    /\ lock = [s \in Shards |-> NoTask]
    /\ mailbox = << >>
    /\ queue = << >>
    /\ free = << >>
    /\ agentPc = "select"
    /\ item = ""
    /\ has_items = FALSE
    /\ tasks = [t \in TaskIds |-> IdleTask]
    /\ started = 0
    /\ now = 0
    /\ last = NoLast
    /\ far_in \in 0..MaxFar
    /\ far_out = NoResult
    /\ parse_in = NoFrame
    /\ parse_out = NoParse
    /\ conns = [c \in Conns |-> NoConn]
    /\ agent = "serving"
    /\ codec = NoCodec

PttlFarCall ==
    /\ ~far_out.done
    /\ far_out' = [done |-> TRUE, val |-> PttlFar(far_in)]
    /\ UNCHANGED far_in
    /\ UNCHANGED MainVars
    /\ UNCHANGED ParseVars
    /\ UNCHANGED ConnVars
    /\ UNCHANGED CodecVars

PttlNext == PttlFarCall

PttlSpec == PttlInit /\ [][PttlNext]_vars

\* --------------------------------------------- cmd.rs: CommandParser
\* Option<String>::None of peek().and_then(Value::try_as_string).
NoString == "<None>"

\* make_ascii_uppercase / to_ascii_uppercase, on the strings the inputs use.
Upper(s) ==
    CASE s = "set" -> "SET"
      [] s = "get" -> "GET"
      [] s = "ex" -> "EX"
      [] s = "nx" -> "NX"
      [] s = "docs" -> "DOCS"
      [] OTHER -> s

IsString(v) == v.tag \in {"SimpleString", "BulkString"}

\* Value::try_as_string
try_as_string(v) == IF IsString(v) THEN Upper(v.str) ELSE NoString

\* self.peek().and_then(Value::try_as_string).as_deref()
peek(buffer) == IF buffer = << >> THEN NoString ELSE try_as_string(Head(buffer))

\* CommandParser::skip, and the pop_front of the expect_ functions.
skip(buffer) == IF buffer = << >> THEN buffer ELSE Tail(buffer)

expect_string(buffer) ==
    [ok |-> buffer # << >> /\ IsString(Head(buffer)),
     str |-> IF buffer # << >> THEN Head(buffer).str ELSE "",
     rest |-> skip(buffer)]

expect_integer(buffer) ==
    [ok |-> buffer # << >> /\ Head(buffer).tag = "Integer",
     int |-> IF buffer # << >> THEN Head(buffer).int ELSE 0,
     rest |-> skip(buffer)]

expect_any(buffer) ==
    [ok |-> buffer # << >>,
     val |-> IF buffer # << >> THEN Head(buffer) ELSE NullString,
     rest |-> skip(buffer)]

\* `while let Ok(s) = self.expect_string() { v.push(s) }`
RECURSIVE Strings(_)
Strings(buffer) ==
    IF expect_string(buffer).ok
    THEN <<expect_string(buffer).str>> \o Strings(expect_string(buffer).rest)
    ELSE << >>

\* RedisCommand, one record shape for all variants; durations in milliseconds.
Command(name) ==
    [name |-> name, key |-> "", value |-> NullString, expiry |-> NoDuration,
     behaviour |-> "", return_old |-> FALSE, keep_ttl |-> FALSE,
     keys |-> << >>, seconds |-> 0]

ParseOk(cmd) == [kind |-> "Ok", error |-> "", cmd |-> cmd]
ParseErr(e) == [kind |-> "Err", error |-> e, cmd |-> Command("")]
\* unimplemented!() in the parser's last match arm.
ParsePanic == [kind |-> "Panic", error |-> "", cmd |-> Command("")]

\* SystemTime::now() as milliseconds since UNIX_EPOCH, for EXAT / PXAT.
SystemNow == 1000

\* system_time.duration_since(SystemTime::now()).ok()
DurationSinceNow(at) == IF at >= SystemNow THEN at - SystemNow ELSE NoDuration

\* The (expiry, keep_ttl) match of the SET arm; `ok` is FALSE when
\* expect_integer()? returns Err(ExpectedInteger).
SetExpiry(buffer) ==
    LET i == expect_integer(skip(buffer))
    IN CASE peek(buffer) = "EX" ->
              [ok |-> i.ok, expiry |-> i.int * 1000, keep_ttl |-> FALSE]
         [] peek(buffer) = "PX" ->
              [ok |-> i.ok, expiry |-> i.int, keep_ttl |-> FALSE]
         [] peek(buffer) = "EXAT" ->
              [ok |-> i.ok, expiry |-> DurationSinceNow(i.int * 1000), keep_ttl |-> FALSE]
         [] peek(buffer) = "PXAT" ->
              [ok |-> i.ok, expiry |-> DurationSinceNow(i.int), keep_ttl |-> FALSE]
         [] peek(buffer) = "KEEPTTL" ->
              [ok |-> TRUE, expiry |-> NoDuration, keep_ttl |-> TRUE]
         [] OTHER ->
              [ok |-> TRUE, expiry |-> NoDuration, keep_ttl |-> FALSE]

\* The "SET" arm of CommandParser::parse.
ParseSet(buffer) ==
    LET key == expect_string(buffer)
        value == expect_any(key.rest)
        b2 == value.rest
        behaviour == CASE peek(b2) = "NX" -> "OnlyIfNotExists"
                       [] peek(b2) = "XX" -> "OnlyIfExists"
                       [] OTHER -> "Force"
        b3 == IF peek(b2) \in {"NX", "XX"} THEN skip(b2) ELSE b2
        return_old == peek(b3) = "GET"
        b4 == IF return_old THEN skip(b3) ELSE b3
        e == SetExpiry(b4)
    IN IF ~key.ok THEN ParseErr("ExpectedString")
       ELSE IF ~value.ok THEN ParseErr("ExpectedAny")
       ELSE IF ~e.ok THEN ParseErr("ExpectedInteger")
       ELSE ParseOk([Command("Set") EXCEPT !.key = key.str, !.value = value.val,
                        !.expiry = IF e.ok THEN e.expiry ELSE NoDuration,
                        !.behaviour = behaviour, !.return_old = return_old,
                        !.keep_ttl = e.keep_ttl])

\* The "EXPIRE" arm of CommandParser::parse.
ParseExpire(buffer) ==
    LET key == expect_string(buffer)
        seconds == expect_integer(key.rest)
        behaviour == CASE peek(seconds.rest) = "NX" -> "OnlyIfNoExpiry"
                       [] peek(seconds.rest) = "XX" -> "OnlyIfExpiry"
                       [] peek(seconds.rest) = "GT" -> "OnlyIfGreater"
                       [] peek(seconds.rest) = "LT" -> "OnlyIfLess"
                       [] OTHER -> "Force"
    IN IF ~key.ok THEN ParseErr("ExpectedString")
       ELSE IF ~seconds.ok THEN ParseErr("ExpectedInteger")
       ELSE ParseOk([Command("Expire") EXCEPT !.key = key.str, !.seconds = seconds.int,
                        !.behaviour = behaviour])

\* A command of one key argument: GET, TTL, PTTL, KEYS.
ParseKey(name, buffer) ==
    IF expect_string(buffer).ok
    THEN ParseOk([Command(name) EXCEPT !.key = expect_string(buffer).str])
    ELSE ParseErr("ExpectedString")

\* CommandParser::parse
parse(buffer) ==
    LET first == expect_string(buffer)
        verb == Upper(first.str)
        sub == expect_string(first.rest)
        command_name ==
            IF verb = "COMMAND" /\ sub.ok THEN verb \o " " \o Upper(sub.str)
            ELSE IF verb = "CONFIG" /\ sub.ok THEN verb \o " " \o Upper(sub.str)
            ELSE verb
        args == IF verb \in {"COMMAND", "CONFIG"} THEN sub.rest ELSE first.rest
    IN IF ~first.ok THEN ParseErr("ExpectedString")
       ELSE IF verb = "CONFIG" /\ ~sub.ok THEN ParseErr("ExpectedString")
       ELSE CASE command_name = "COMMAND" -> ParseOk(Command("Command"))
              [] command_name = "COMMAND DOCS" ->
                   ParseOk([Command("CommandDocs") EXCEPT !.keys = Strings(args)])
              [] command_name = "CONFIG GET" ->
                   ParseOk([Command("ConfigGet") EXCEPT !.keys = Strings(args)])
              [] command_name = "GET" -> ParseKey("Get", args)
              [] command_name = "SET" -> ParseSet(args)
              [] command_name = "DEL" -> ParseOk([Command("Del") EXCEPT !.keys = Strings(args)])
              [] command_name = "TTL" -> ParseKey("Ttl", args)
              [] command_name = "PTTL" -> ParseKey("Pttl", args)
              [] command_name = "EXPIRE" -> ParseExpire(args)
              [] command_name = "KEYS" -> ParseKey("Keys", args)
              [] OTHER -> ParsePanic

\* ------------------------------------- main.rs: the command task, parsing
\* Value::Error(RedisError { message })
ErrorValue(message) == [tag |-> "Error", str |-> message, int |-> 0]

\* What the command task of `handle` makes of a decoded item up to the call
\* of apply: "NotArray" and "Err" reply with an Error, "Panic" ends the task
\* inside parse(), "Ok" goes on to command.apply(&db).
ParseItem(it) ==
    IF it.array THEN parse(it.buffer) ELSE [ParseErr("") EXCEPT !.kind = "NotArray"]

ParseResult(it) ==
    LET r == ParseItem(it)
    IN [done |-> TRUE, kind |-> r.kind, name |-> r.cmd.name,
        expiry |-> r.cmd.expiry, seconds |-> r.cmd.seconds,
        behaviour |-> r.cmd.behaviour, return_old |-> r.cmd.return_old,
        keep_ttl |-> r.cmd.keep_ttl,
        reply |-> IF r.kind \in {"Err", "NotArray"}
                  THEN ErrorValue("Failed to parse command") ELSE NullString]

\* The frames clients send: SET with every combination of the behaviour, GET
\* and expiry options, the numeric argument as Integer, BulkString or
\* SimpleString, and the other verbs, well-formed and not.
SetHeads ==
    {<<BulkString("SET"), BulkString("k1"), BulkString("v")>>,
     <<SimpleString("set"), BulkString("k1"), Integer(7)>>}

SetFlags ==
    {<< >>, <<BulkString("NX")>>, <<BulkString("XX")>>, <<BulkString("GET")>>,
     <<BulkString("nx"), BulkString("get")>>}

Numerals == {Integer(2), BulkString("2"), SimpleString("2")}

SetTails ==
    {<< >>, <<BulkString("EX")>>, <<BulkString("KEEPTTL")>>}
    \cup {<<BulkString(o), n>> : o \in {"EX", "PX", "EXAT", "PXAT", "ex"}, n \in Numerals}

SetFrames == {h \o f \o t : h \in SetHeads, f \in SetFlags, t \in SetTails}

ExpireFrames ==
    {<<BulkString("EXPIRE"), BulkString("k1"), n>> \o t :
        n \in Numerals, t \in {<< >>, <<BulkString("NX")>>, <<BulkString("GT")>>}}
    \cup {<<BulkString("EXPIRE"), BulkString("k1")>>}

OtherFrames ==
    {<< >>, <<Integer(1)>>,
     <<BulkString("GET"), BulkString("k1")>>, <<BulkString("get"), SimpleString("k1")>>,
     <<BulkString("GET")>>, <<BulkString("GET"), Integer(1)>>,
     <<BulkString("DEL")>>, <<BulkString("DEL"), BulkString("k1"), BulkString("k2")>>,
     <<BulkString("DEL"), BulkString("k1"), Integer(1), BulkString("k2")>>,
     <<BulkString("TTL"), BulkString("k1")>>, <<BulkString("TTL")>>,
     <<BulkString("PTTL"), BulkString("k1")>>,
     <<BulkString("KEYS"), BulkString("*")>>,
     <<BulkString("COMMAND")>>, <<BulkString("COMMAND"), BulkString("docs")>>,
     <<BulkString("COMMAND"), BulkString("DOCS"), BulkString("get")>>,
     <<BulkString("COMMAND"), BulkString("COUNT")>>,
     <<BulkString("CONFIG")>>, <<BulkString("CONFIG"), BulkString("GET"), BulkString("save")>>,
     <<BulkString("CONFIG"), BulkString("SET"), BulkString("save")>>,
     <<BulkString("PING")>>, <<BulkString("LLEN"), BulkString("mylist")>>}

\* The valid sets of flags of SET: at most one flag of each group.
SetOptionSets ==
    LET behaviours == {<<BulkString("NX")>>, <<BulkString("XX")>>}
        gets == {<<BulkString("GET")>>}
        expiries == {<<BulkString("EX"), Integer(2)>>, <<BulkString("PX"), Integer(500)>>,
                     <<BulkString("EXAT"), Integer(3)>>, <<BulkString("PXAT"), Integer(1500)>>,
                     <<BulkString("KEEPTTL")>>}
        AtMostOne(S) == {{}} \cup {{x} : x \in S}
    IN {b \cup g \cup e : b \in AtMostOne(behaviours), g \in AtMostOne(gets), e \in AtMostOne(expiries)}

\* Every order in which a set of flags can be written.
Orders(S) == {p \in [1..Cardinality(S) -> S] : {p[i] : i \in DOMAIN p} = S}

RECURSIVE Concat(_)
Concat(ss) == IF ss = << >> THEN << >> ELSE Head(ss) \o Concat(Tail(ss))

\* SET frames with their flags in every order.
PermutedSetFrames ==
    {h \o Concat(p) : h \in SetHeads, p \in UNION {Orders(S) : S \in SetOptionSets}}

ParseInputs ==
    {Array(b) : b \in SetFrames \cup PermutedSetFrames \cup ExpireFrames \cup OtherFrames}
    \cup {NotArray(BulkString("GET")), NotArray(Integer(1)), NotArray(NullString)}

ParseInit ==
    /\ entries = << >>
    /\ shardOf = [k \in Keys |-> 0]
    /\ lock = [s \in Shards |-> NoTask]
    /\ mailbox = << >>
    /\ queue = << >>
    /\ free = << >>
    /\ agentPc = "select"
    /\ item = ""
    /\ has_items = FALSE
    /\ tasks = [t \in TaskIds |-> IdleTask]
    /\ started = 0
    /\ now = 0
    /\ last = NoLast
    /\ far_in = 0
    /\ far_out = NoResult
    /\ parse_in \in ParseInputs
    /\ parse_out = NoParse
    /\ conns = [c \in Conns |-> NoConn]
    /\ agent = "serving"
    /\ codec = NoCodec

\* The command task up to apply (main.rs 63-77).
ParseCall ==
    /\ ~parse_out.done
    /\ parse_out' = ParseResult(parse_in)
    /\ UNCHANGED parse_in
    /\ UNCHANGED MainVars
    /\ UNCHANGED FarVars
    /\ UNCHANGED ConnVars
    /\ UNCHANGED CodecVars

ParseNext == ParseCall

ParseSpec == ParseInit /\ [][ParseNext]_vars

\* ------------------------------------------------ main.rs: connections
\* Frames sent by clients over all connections.
MaxFrames == 2

\* What a client writes to its socket: the first byte of the frame and the
\* Value the rest of it encodes.
WireFrame(type, frame) == [type |-> type, frame |-> frame]

ClientItems ==
    {WireFrame("*", Array(<<BulkString("GET"), BulkString("k1")>>)),
     WireFrame("*", Array(<<BulkString("SET"), BulkString("k1"), BulkString("v"),
                            BulkString("PX"), Integer(500)>>)),
     WireFrame("*", Array(<<BulkString("EXPIRE"), BulkString("k1"), Integer(2)>>)),
     WireFrame("%", NoFrame)}

\* Value::parse on the first byte of a frame: a known type tag yields the
\* Value, anything else Err(ProtocolError::UnknownType).
decode(w) ==
    IF w.type \in {"+", "-", ":", "$", "*"}
    THEN [ok |-> TRUE, value |-> w.frame]
    ELSE [ok |-> FALSE, value |-> NoFrame]

\* The state Db::set / Db::remove find the key in: absent, present without
\* TTL, present with TTL and handle.
PriorStates == {"absent", "plain", "ttl"}

\* command.apply(&db).await up to its first suspension, by command, prior
\* state of the key and state of the agent: "reply", "panic" or "suspend"
\* (Db::set awaiting the handle).  Expire and Keys are todo!().
ApplyOutcome(cmd, prior, agent_state) ==
    CASE cmd.name \in {"Expire", "Keys"} -> "panic"
      [] cmd.name = "Del" ->
           IF prior = "ttl" /\ agent_state = "dead" THEN "panic" ELSE "reply"
      [] cmd.name = "Set" ->
           IF ~ShouldInsert(cmd.behaviour, prior # "absent") THEN "reply"
           ELSE IF cmd.keep_ttl \/ cmd.expiry = NoDuration THEN "reply"
           ELSE IF prior = "absent"
                THEN IF agent_state = "dead" THEN "panic" ELSE "suspend"
                ELSE IF prior = "plain" \/ agent_state = "dead" THEN "panic" ELSE "reply"
      [] OTHER -> "reply"

\* The outcome of the spawned command task (main.rs 62-80) for an item.
TaskOutcome(it, prior, agent_state) ==
    LET p == ParseItem(it)
    IN CASE p.kind \in {"Err", "NotArray"} -> "error"
         [] p.kind = "Panic" -> "panic"
         [] OTHER -> ApplyOutcome(p.cmd, prior, agent_state)

\* The states of the expiration agent as the connections see it.
AgentStates == {"serving", "blocked", "dead"}

\* TaskOutcome over the frames the clients send, tabulated once.
TaskOutcomes ==
    [it \in {w.frame : w \in ClientItems}, prior \in PriorStates, a \in AgentStates |->
        TaskOutcome(it, prior, a)]

Reply(req, error) == [req |-> req, error |-> error]

\* Mutant of Recv: the writer takes the newest reply of the channel.
Recv_Newest(chan) == [value |-> chan[Len(chan)], rest |-> SubSeq(chan, 1, Len(chan) - 1)]

\* rx.recv() of the reply-writer: the oldest reply of the channel.
Recv(chan) == [value |-> Head(chan), rest |-> Tail(chan)]

\* `let _ = tx.send(reply)`: queued unless the writer has dropped the receiver.
Push(conn, reply) ==
    IF conn.writer = "running"
    THEN [conn EXCEPT !.chan = Append(@, reply), !.pushed = Append(@, reply.req)]
    ELSE conn

Finished(conn) ==
    \A r \in 1..Len(conn.ctasks) : conn.ctasks[r].pc \in {"done", "panicked"}

\* Every Sender is dropped: the read loop has ended and no command task is left.
ChannelClosed(conn) == conn.reader # "reading" /\ Finished(conn)

FramesSent == conns[1].nsent + conns[2].nsent

ConnInit ==
    /\ entries = << >>
    /\ shardOf = [k \in Keys |-> 0]
    /\ lock = [s \in Shards |-> NoTask]
    /\ mailbox = << >>
    /\ queue = << >>
    /\ free = << >>
    /\ agentPc = "select"
    /\ item = ""
    /\ has_items = FALSE
    /\ tasks = [t \in TaskIds |-> IdleTask]
    /\ started = 0
    /\ now = 0
    /\ last = NoLast
    /\ far_in = 0
    /\ far_out = NoResult
    /\ parse_in = NoFrame
    /\ parse_out = NoParse
    /\ conns = [c \in Conns |-> NoConn]
    /\ agent = "serving"
    /\ codec = NoCodec

ConnFrame == <<MainVars, FarVars, ParseVars, CodecVars>>

\* The client writes one more frame to its socket.
ClientSend(c, w) ==
    /\ conns[c].client = "open"
    /\ FramesSent < MaxFrames
    /\ conns' = [conns EXCEPT ![c].socket = Append(@, w), ![c].nsent = @ + 1]
    /\ UNCHANGED agent
    /\ UNCHANGED ConnFrame

\* The client closes the connection; what it had not sent is never sent.
ClientClose(c) ==
    /\ conns[c].client = "open"
    /\ conns' = [conns EXCEPT ![c].client = "closed", ![c].socket = << >>]
    /\ UNCHANGED agent
    /\ UNCHANGED ConnFrame

\* `while let Some(Ok(item)) = stream.next().await`: a decoded item is handed
\* to a new command task; a codec error ends the loop.
Read(c) ==
    /\ conns[c].reader = "reading"
    /\ conns[c].socket # << >>
    /\ LET d == decode(Head(conns[c].socket))
       IN conns' = [conns EXCEPT
             ![c] = IF d.ok
                    THEN [@ EXCEPT !.socket = Tail(@),
                                   !.ctasks = Append(@, [item |-> d.value, pc |-> "spawned"])]
                    ELSE [@ EXCEPT !.socket = Tail(@), !.reader = "errored",
                                   !.at_error = Len(conns[c].wire)]]
    /\ UNCHANGED agent
    /\ UNCHANGED ConnFrame

\* stream.next() yields None at end of stream: the loop ends, `handle` returns.
ReadEof(c) ==
    /\ conns[c].reader = "reading"
    /\ conns[c].socket = << >>
    /\ conns[c].client = "closed"
    /\ conns' = [conns EXCEPT ![c].reader = "closed"]
    /\ UNCHANGED agent
    /\ UNCHANGED ConnFrame

\* A spawned command task runs: parse, apply up to its first suspension, and
\* tx.send(reply) when it gets that far.
RunTask(c, r, prior) ==
    /\ r \in 1..Len(conns[c].ctasks)
    /\ conns[c].ctasks[r].pc = "spawned"
    /\ LET o == TaskOutcomes[conns[c].ctasks[r].item, prior, agent]
           conn == conns[c]
       IN conns' = [conns EXCEPT
             ![c] = CASE o = "panic" -> [conn EXCEPT !.ctasks[r].pc = "panicked"]
                      [] o = "suspend" -> [conn EXCEPT !.ctasks[r].pc = "suspended"]
                      [] OTHER -> Push([conn EXCEPT !.ctasks[r].pc = "done"],
                                       Reply(r, o = "error"))]
    /\ UNCHANGED agent
    /\ UNCHANGED ConnFrame

\* rx.await of Db::set resolves with the handle: the task completes and replies.
ResumeTask(c, r) ==
    /\ r \in 1..Len(conns[c].ctasks)
    /\ conns[c].ctasks[r].pc = "suspended"
    /\ agent = "serving"
    /\ conns' = [conns EXCEPT
          ![c] = Push([conns[c] EXCEPT !.ctasks[r].pc = "done"], Reply(r, FALSE))]
    /\ UNCHANGED agent
    /\ UNCHANGED ConnFrame

\* rx.await resolves with RecvError once the agent is gone: unwrap panics.
AbortTask(c, r) ==
    /\ r \in 1..Len(conns[c].ctasks)
    /\ conns[c].ctasks[r].pc = "suspended"
    /\ agent = "dead"
    /\ conns' = [conns EXCEPT ![c].ctasks[r].pc = "panicked"]
    /\ UNCHANGED agent
    /\ UNCHANGED ConnFrame

\* The reply-writer: `while let Some(item) = rx.recv().await` and
\* sink.send(item), which fails once the client is gone.
Write(c) ==
    /\ conns[c].writer = "running"
    /\ conns[c].chan # << >>
    /\ conns' = [conns EXCEPT
          ![c] = IF conns[c].client = "open"
                 THEN [@ EXCEPT !.wire = Append(@, Recv(conns[c].chan).value),
                                !.chan = Recv(conns[c].chan).rest]
                 ELSE [@ EXCEPT !.writer = "exited", !.chan = << >>]]
    /\ UNCHANGED agent
    /\ UNCHANGED ConnFrame

\* rx.recv() yields None: the channel is empty and every Sender is dropped.
WriterExit(c) ==
    /\ conns[c].writer = "running"
    /\ conns[c].chan = << >>
    /\ ChannelClosed(conns[c])
    /\ conns' = [conns EXCEPT ![c].writer = "exited"]
    /\ UNCHANGED agent
    /\ UNCHANGED ConnFrame

\* The agent task panics in queue.remove / queue.reset on a stale handle.
AgentDies ==
    /\ agent = "serving"
    /\ agent' = "dead"
    /\ UNCHANGED conns
    /\ UNCHANGED ConnFrame

\* The agent blocks in remove_raw on the shard lock that a suspended Db::set
\* holds while it waits for the agent.
AgentBlocks ==
    /\ agent = "serving"
    /\ \E c \in Conns : \E r \in 1..Len(conns[c].ctasks) :
          conns[c].ctasks[r].pc = "suspended"
    /\ agent' = "blocked"
    /\ UNCHANGED conns
    /\ UNCHANGED ConnFrame

ConnNext ==
    \/ \E c \in Conns, w \in ClientItems : ClientSend(c, w)
    \/ \E c \in Conns : ClientClose(c)
    \/ \E c \in Conns : Read(c)
    \/ \E c \in Conns : ReadEof(c)
    \/ \E c \in Conns, r \in 1..MaxFrames, prior \in PriorStates : RunTask(c, r, prior)
    \/ \E c \in Conns, r \in 1..MaxFrames : ResumeTask(c, r)
    \/ \E c \in Conns, r \in 1..MaxFrames : AbortTask(c, r)
    \/ \E c \in Conns : Write(c)
    \/ \E c \in Conns : WriterExit(c)
    \/ AgentDies
    \/ AgentBlocks

ConnSpec == ConnInit /\ [][ConnNext]_vars

\* The steps of the server's own tasks on the connections.
ServerStep ==
    \/ \E c \in Conns : Read(c)
    \/ \E c \in Conns : ReadEof(c)
    \/ \E c \in Conns, r \in 1..MaxFrames, prior \in PriorStates : RunTask(c, r, prior)
    \/ \E c \in Conns, r \in 1..MaxFrames : ResumeTask(c, r)
    \/ \E c \in Conns, r \in 1..MaxFrames : AbortTask(c, r)
    \/ \E c \in Conns : Write(c)
    \/ \E c \in Conns : WriterExit(c)

\* The runtime polls every task that can run; clients and the failures of the
\* agent are under no obligation.  Every server step consumes a frame, a task
\* or a reply, so no task can be overtaken forever: the server keeps taking
\* steps until none is enabled.
FairConnSpec == ConnInit /\ [][ConnNext]_vars /\ WF_vars(ServerStep)

\* ------------------------------------- proto.rs: a frame through the codec
\* The Values handed to the Encoder: every variant, Arrays empty, flat and
\* nested, and SimpleStrings whose payload holds a CR or an LF.
CodecValues ==
    LET payloads == {<< >>, <<"O", "K">>}
        scalars ==
            {Value("SimpleString", s, 0, << >>) : s \in payloads}
            \cup {Value("BulkString", s, 0, << >>) : s \in payloads \cup {<<"a", CR, LF>>}}
            \cup {Value("Integer", << >>, i, << >>) : i \in {0, 10, -12}}
            \cup {Value("Error", <<"E", "r">>, 0, << >>),
                  Value("NullString", << >>, 0, << >>),
                  Value("NullArray", << >>, 0, << >>)}
        arrays ==
            {Value("Array", << >>, 0, << >>),
             Value("Array", << >>, 0, <<Value("BulkString", <<"O", "K">>, 0, << >>),
                                        Value("BulkString", << >>, 0, << >>)>>),
             Value("Array", << >>, 0, <<Value("Integer", << >>, 1, << >>),
                                        Value("Array", << >>, 0,
                                              <<Value("SimpleString", <<"O", "K">>, 0, << >>),
                                                Value("NullString", << >>, 0, << >>)>>)>>),
             Value("Array", << >>, 0, <<Value("Error", <<"E", "r">>, 0, << >>)>>)}
        unclean ==
            {Value("SimpleString", <<"a", CR, LF, "b">>, 0, << >>),
             Value("SimpleString", <<"a", LF>>, 0, << >>)}
    IN scalars \cup arrays \cup unclean

\* Frames a client writes itself, with the Value they stand for.
ClientFrames ==
    {[bytes |-> <<"-", "E", "r">> \o CRLF, value |-> Value("Error", <<"E", "r">>, 0, << >>)],
     [bytes |-> <<"*", "2">> \o CRLF \o <<"+", "H">> \o CRLF \o <<"-", "W">> \o CRLF,
      value |-> Value("Array", << >>, 0, <<Value("SimpleString", <<"H">>, 0, << >>),
                                           Value("Error", <<"W">>, 0, << >>)>>)]}

\* The bytes that follow the frame in the buffer.
CodecTails == {<< >>, <<":", "1">> \o CRLF, <<"%">>}

\* RedisProtocol.encode(item, dst) on an empty dst.
CodecEncode(v) ==
    /\ codec.stage = "idle"
    /\ codec' = [codec EXCEPT !.stage = "encoded", !.by = "encoder", !.value = v,
                              !.wire = encode(v)]
    /\ UNCHANGED MainVars
    /\ UNCHANGED FarVars
    /\ UNCHANGED ParseVars
    /\ UNCHANGED ConnVars

\* A peer writes a frame of its own making.
CodecClientFrame(f) ==
    /\ codec.stage = "idle"
    /\ codec' = [codec EXCEPT !.stage = "encoded", !.by = "client", !.value = f.value,
                              !.wire = f.bytes]
    /\ UNCHANGED MainVars
    /\ UNCHANGED FarVars
    /\ UNCHANGED ParseVars
    /\ UNCHANGED ConnVars

\* The whole frame and what follows it have arrived in the Decoder's buffer.
CodecReceiveWhole(tail) ==
    /\ codec.stage = "encoded"
    /\ codec' = [codec EXCEPT !.stage = "received", !.whole = TRUE, !.tail = tail,
                              !.src = codec.wire \o tail]
    /\ UNCHANGED MainVars
    /\ UNCHANGED FarVars
    /\ UNCHANGED ParseVars
    /\ UNCHANGED ConnVars

\* Only the first n bytes of the frame have arrived.
CodecReceivePart(n) ==
    /\ codec.stage = "encoded"
    /\ n \in 0..(Len(codec.wire) - 1)
    /\ codec' = [codec EXCEPT !.stage = "received", !.whole = FALSE,
                              !.src = SubSeq(codec.wire, 1, n)]
    /\ UNCHANGED MainVars
    /\ UNCHANGED FarVars
    /\ UNCHANGED ParseVars
    /\ UNCHANGED ConnVars

\* RedisProtocol.decode(src)
CodecDecode ==
    /\ codec.stage = "received"
    /\ codec' = [codec EXCEPT !.stage = "decoded", !.out = Decode(codec.src).out,
                              !.rest = Decode(codec.src).rest]
    /\ UNCHANGED MainVars
    /\ UNCHANGED FarVars
    /\ UNCHANGED ParseVars
    /\ UNCHANGED ConnVars

\* The longest frame of the model bounds the number of bytes that arrive.
MaxWire == 26

CodecNext ==
    \/ \E v \in CodecValues : CodecEncode(v)
    \/ \E f \in ClientFrames : CodecClientFrame(f)
    \/ \E tail \in CodecTails : CodecReceiveWhole(tail)
    \/ \E n \in 0..MaxWire : CodecReceivePart(n)
    \/ CodecDecode

CodecSpec == ConnInit /\ [][CodecNext]_vars

\* ===================================================================
\* Claims about the keyspace and the expiration agent
\* ===================================================================

HasDeadline(k) == k \in DOMAIN entries /\ entries[k].expires_at # NoInstant
HasHandle(k) == k \in DOMAIN entries /\ entries[k].expiration_key # NoKey
OK == SimpleString("OK")
SetDone == last.op = "Set"
SetReplied == last.op = "Set" /\ last.outcome = "reply"

\* C1: in every reachable state each entry has an expiration handle if and
\* only if it has an expires_at deadline.
C1_HandleIffDeadline ==
    \A k \in DOMAIN entries : HasHandle(k) <=> HasDeadline(k)

\* C2: the lookup, the decision and the mutation of a SET on k are atomic
\* with respect to every other operation on k.  While a SET is suspended
\* between its lookup and its mutation it owns the lock of k's shard, no step
\* changes k and no other command on k completes; and a SET NX writes k only
\* in a step that starts with k absent and ends with k holding its value, and
\* a SET NX that replies after finding k absent is one that wrote: of
\* concurrent SET k NX on an absent k the first to look k up writes and no
\* second one does.
C2_SetAtomic ==
    [][/\ \A t \in TaskIds :
             (tasks[t].pc = "await" /\ tasks'[t].pc = "await") =>
                /\ lock[shardOf[tasks[t].key]] = t
                /\ tasks[t].key \notin DOMAIN entries
                /\ tasks[t].key \notin DOMAIN entries'
                /\ ~(last'.op # "" /\ last'.key = tasks[t].key)
       /\ (last'.op = "Set" /\ last'.behaviour = "OnlyIfNotExists"
              /\ last'.key \in DOMAIN entries' /\ entries'[last'.key].value = last'.value
              /\ entries' # entries) =>
             /\ last'.key \notin DOMAIN entries
             /\ last'.proceeded
       /\ (last'.op = "Set" /\ last'.behaviour = "OnlyIfNotExists"
              /\ last'.key \in DOMAIN entries) =>
             /\ entries' = entries
             /\ last'.reply = NullString
       /\ (last'.op = "Set" /\ last'.behaviour = "OnlyIfNotExists"
              /\ ~last'.occupied /\ last'.outcome = "reply") =>
             /\ last'.proceeded
             /\ last'.key \notin DOMAIN entries
             /\ last'.key \in DOMAIN entries'
             /\ entries'[last'.key].value = last'.value
      ]_vars

\* A SET NX is suspended between lookup and mutation while later commands run.
C2_Witness ==
    \E t \in TaskIds :
       /\ tasks[t].pc = "await"
       /\ tasks[t].behaviour = "OnlyIfNotExists"
       /\ last.op = "Set" /\ last.proceeded /\ last.key # tasks[t].key

\* C3: no task holds a keyspace lock while it is suspended at an await: a SET
\* waiting for the reply to Insert holds no shard lock.
C3_NoLockAcrossAwait ==
    \A t \in TaskIds : tasks[t].pc = "await" => \A s \in Shards : lock[s] # t

\* C4: after a SET on k that proceeds with no expiry and keep_ttl = false, k
\* has no TTL (TTL k = -1) and no handle.  The prior entries considered are
\* the well-formed ones: a handle iff a deadline.
C4_PlainSetClearsTtl ==
    (/\ SetDone /\ last.proceeded /\ last.expire = NoDuration /\ ~last.keep_ttl
     /\ (last.prior.expiration_key # NoKey <=> last.prior.expires_at # NoInstant)) =>
       /\ Ttl(last.key) = -1
       /\ ~HasHandle(last.key)

\* C5: a SET on k that proceeds with an expiry e and keep_ttl = false leaves k
\* with expires_at = now + e and a handle, and completes with a reply, whether
\* k was absent or present, with or without a prior TTL.
C5_ExpirySetSchedules ==
    (SetDone /\ last.proceeded /\ last.expire # NoDuration /\ ~last.keep_ttl) =>
       /\ last.outcome = "reply"
       /\ last.key \in DOMAIN entries
       /\ entries[last.key].expires_at = now + last.expire
       /\ HasHandle(last.key)

\* C6: a SET on an existing key that proceeds with keep_ttl = true changes
\* only the value: expires_at and the handle stay as they were and nothing is
\* sent to the expiration service.
C6_KeepTtlFrame ==
    [][(last'.op = "Set" /\ last'.keep_ttl /\ last'.key \in DOMAIN entries
           /\ last'.behaviour # "OnlyIfNotExists") =>
          LET k == last'.key IN
          /\ last'.outcome = "reply"
          /\ k \in DOMAIN entries'
          /\ entries'[k].value = last'.value
          /\ entries'[k].expires_at = entries[k].expires_at
          /\ entries'[k].expiration_key = entries[k].expiration_key
          /\ \A x \in (DOMAIN entries) \ {k} : x \in DOMAIN entries' /\ entries'[x] = entries[x]
          /\ mailbox' = mailbox
      ]_vars

\* A SET KEEPTTL replaced the value of a key that has a TTL.
C6_Witness ==
    /\ SetReplied /\ last.keep_ttl /\ last.occupied /\ last.proceeded
    /\ last.prior.expires_at # NoInstant
    /\ last.prior.expiration_key # NoKey
    /\ last.prior.value # last.value

\* C7: SET follows the behaviour table for every behaviour and prior state of
\* k, and without GET it replies OK exactly when the write proceeded and
\* NullString exactly when it did not.
C7_Writes(behaviour, was) ==
    \/ behaviour = "Force"
    \/ behaviour = "OnlyIfNotExists" /\ ~was
    \/ behaviour = "OnlyIfExists" /\ was

C7_SetTable ==
    SetDone =>
       LET writes == C7_Writes(last.behaviour, last.occupied) IN
       /\ writes => /\ last.key \in DOMAIN entries
                    /\ entries[last.key].value = last.value
       /\ ~writes => /\ last.occupied => /\ last.key \in DOMAIN entries
                                         /\ entries[last.key] = last.prior
                     /\ ~last.occupied => last.key \notin DOMAIN entries
       /\ ~last.return_old =>
             /\ last.outcome = "reply"
             /\ last.reply = IF writes THEN OK ELSE NullString

\* C8: SET with GET replies with the value k held right before the command
\* when k had one, and with NullString when it had none, for every behaviour.
C8_SetGetPrior ==
    (SetReplied /\ last.return_old) =>
       last.reply = IF last.occupied THEN last.prior.value ELSE NullString

\* C9: TTL k and PTTL k return -2 when k is absent or past its deadline, -1
\* when k has no TTL, and otherwise a non-negative remaining time that does
\* not increase while k is not written.  PttlSpec: the remaining time PTTL
\* returns for an entry before its deadline is non-negative.
C9_PttlNonNegative == far_out.done => far_out.val >= 0

\* The same claim for deadlines less than 2^63 ms ahead, where the cast of
\* Db::pttl changes nothing.
C9_NearValues ==
    \A k \in Keys :
       /\ (k \notin DOMAIN entries) => (Ttl(k) = -2 /\ Pttl(k) = -2)
       /\ (HasDeadline(k) /\ entries[k].expires_at < now) => (Ttl(k) = -2 /\ Pttl(k) = -2)
       /\ (k \in DOMAIN entries /\ ~HasDeadline(k)) => (Ttl(k) = -1 /\ Pttl(k) = -1)
       /\ (HasDeadline(k) /\ entries[k].expires_at >= now) =>
             /\ Ttl(k) >= 0 /\ Pttl(k) >= 0
             /\ Ttl(k) * 1000 <= Pttl(k)
             /\ Pttl(k) = (entries[k].expires_at - now) * MillisPerTick

C9_NearMonotone ==
    [][\A k \in Keys :
          (k \in DOMAIN entries /\ k \in DOMAIN entries' /\ entries'[k] = entries[k]) =>
             (Ttl(k)' <= Ttl(k) /\ Pttl(k)' <= Pttl(k))]_vars

\* C10: after SET k v with an expiry and no later write to k, once the
\* deadline has elapsed the expiration service eventually removes k.  An
\* entry is due when its deadline has elapsed and its queue item, still
\* scheduled under the entry's handle, has reached its own deadline with no
\* Reset of that handle on its way.
Due(k) ==
    /\ HasDeadline(k) /\ HasHandle(k)
    /\ entries[k].expires_at < now
    /\ entries[k].expiration_key \in DOMAIN queue
    /\ queue[entries[k].expiration_key].value = k
    /\ queue[entries[k].expiration_key].deadline <= now
    /\ \A i \in 1..Len(mailbox) :
          ~(mailbox[i].type = "Reset" /\ mailbox[i].key = entries[k].expiration_key)

C10_DueKeyRemoved ==
    \A k \in Keys : Due(k) ~> (k \notin DOMAIN entries \/ entries[k].expires_at >= now)

\* C11: DEL over a list of keys replies with the number of listed keys that
\* existed when the command was called.
C11_DelCount ==
    (last.op = "Del" /\ last.outcome = "reply") => last.reply = Integer(last.existed)

\* C12: a Remove that reaches the agent for a handle that is no longer in the
\* queue (its deadline fired and remove_raw ran) is a no-op: the queue and the
\* keyspace stay as they are and the agent goes on to the next message.
C12_StaleRemoveNoOp ==
    [][(/\ mailbox # << >>
        /\ Head(mailbox).type = "Remove"
        /\ Head(mailbox).key \notin DOMAIN queue
        /\ Len(mailbox') < Len(mailbox)) =>
          /\ agentPc' = "select"
          /\ queue' = queue
          /\ entries' = entries
          /\ mailbox' = Tail(mailbox)
      ]_vars

\* C13: a handle returned by Insert is fresh: it is not a handle that was
\* issued earlier and has since fired or been removed (the vacated slots
\* listed in `free`).
C13_FreshHandle ==
    [][\A t \in TaskIds :
          (tasks[t].pc = "await" /\ tasks[t].rx = NoKey /\ tasks'[t].rx # NoKey) =>
             \A i \in 1..Len(free) : free[i] # tasks'[t].rx
      ]_vars

\* C20: a request whose elements are all BulkStrings or SimpleStrings,
\* including the numeric argument of SET's EX / PX / EXAT / PXAT and of EXPIRE,
\* is parsed into the command with that numeric argument.
C20_AllStrings(it) ==
    it.array /\ \A i \in 1..Len(it.buffer) : IsString(it.buffer[i])

C20_HasNumeral(it) ==
    \E i \in 2..Len(it.buffer) :
       /\ it.buffer[i].str = "2"
       /\ \/ Upper(it.buffer[i - 1].str) \in {"EX", "PX", "EXAT", "PXAT"}
          \/ (i = 3 /\ it.buffer[1].str = "EXPIRE")

C20_StringNumeralParsed ==
    (parse_out.done /\ C20_AllStrings(parse_in) /\ C20_HasNumeral(parse_in)) =>
       /\ parse_out.kind = "Ok"
       /\ parse_out.name = "Set" =>
             parse_out.expiry \in {2, 2000, DurationSinceNow(2), DurationSinceNow(2000)}
       /\ parse_out.name = "Expire" => parse_out.seconds = 2

\* C16: a request that fails command parsing (unknown verb, missing or wrongly
\* typed argument, a top-level frame that is not an Array) is answered with
\* Error("Failed to parse command").
C16_ParseFailureReplies ==
    (parse_out.done /\ parse_out.kind # "Ok") =>
       /\ parse_out.kind \in {"Err", "NotArray"}
       /\ parse_out.reply = ErrorValue("Failed to parse command")

\* What C21 compares of two parsed SET commands.
C21_Options(r) == <<r.kind, r.behaviour, r.return_old, r.expiry, r.keep_ttl>>

\* C21: the SET parser accepts its flags in any order: a SET frame whose flags
\* are a valid set of flags in some order parses to the same behaviour,
\* return_old, expiry and keep_ttl as the frame with the same flags in any
\* other order.
C21_FlagsAnyOrder ==
    parse_out.done =>
       \A h \in SetHeads, S \in SetOptionSets :
          \A p, q \in Orders(S) :
             parse_in = Array(h \o Concat(p)) =>
                C21_Options(parse_out) = C21_Options(ParseResult(Array(h \o Concat(q))))

\* C24: the agent's expiry branch is gated on the queue being non-empty:
\* whenever the agent is at its select, has_items is true exactly when the
\* delay queue holds an item.
C24_ExpiryGated ==
    agentPc = "select" => (has_items <=> DOMAIN queue # {})

\* C25: the system is free of deadlock: a SET suspended on the reply to its
\* Insert eventually leaves that await, and the agent eventually gets past
\* every remove_raw.
C25_DeadlockFree ==
    /\ \A t \in TaskIds : (tasks[t].pc = "await") ~> (tasks[t].pc # "await")
    /\ (agentPc = "remove_raw") ~> (agentPc # "remove_raw")

\* C26: the expiration service only removes the entry whose deadline fired:
\* a remove_raw that deletes an entry deletes one that has a TTL and whose
\* current deadline has elapsed.
C26_RemovesOnlyExpired ==
    [][(agentPc = "remove_raw" /\ agentPc' = "select" /\ item \in DOMAIN entries) =>
          /\ entries[item].expires_at # NoInstant
          /\ entries[item].expires_at <= now]_vars

\* C27: GET and TTL agree on existence: in the state in which TTL k or PTTL k
\* has replied -2, GET k finds no value.
C27_GetTtlAgree ==
    (last.op \in {"Ttl", "Pttl"} /\ last.reply = Integer(-2)) => ~Get(last.key).some

\* ===================================================================
\* Claims about connections
\* ===================================================================

\* The requests whose replies a sequence of replies carries, in order.
ReqsOf(replies) == [i \in 1..Len(replies) |-> replies[i].req]

IsPrefix(a, b) == Len(a) <= Len(b) /\ a = SubSeq(b, 1, Len(a))

\* C14: within one connection the replies are written in the order in which
\* they were pushed: what is written is a prefix of the push order, followed
\* while the writer runs by what is still queued, and no reply is written twice.
C14_WrittenInPushOrder ==
    \A c \in Conns :
       /\ IsPrefix(ReqsOf(conns[c].wire), conns[c].pushed)
       /\ conns[c].writer = "running" =>
             ReqsOf(conns[c].wire) \o ReqsOf(conns[c].chan) = conns[c].pushed
       /\ \A i, j \in 1..Len(conns[c].wire) :
             conns[c].wire[i].req = conns[c].wire[j].req => i = j

\* The reply of a later request was written before that of an earlier one.
C14_Witness ==
    \E c \in Conns :
       /\ Len(conns[c].wire) >= 2
       /\ conns[c].wire[1].req > conns[c].wire[2].req

\* C15: every request frame decoded on an open connection receives exactly
\* one reply: once all its command tasks have ended and the channel is
\* drained, each request has one reply on the wire.
C15_OneReplyEach ==
    \A c \in Conns :
       (/\ conns[c].client = "open" /\ conns[c].writer = "running"
        /\ Finished(conns[c]) /\ conns[c].chan = << >>) =>
          \A r \in 1..Len(conns[c].ctasks) :
             Cardinality({i \in 1..Len(conns[c].wire) : conns[c].wire[i].req = r}) = 1

\* C17: after the codec has raised a protocol error on a connection no
\* further reply is written on it.
C17_NoReplyAfterError ==
    \A c \in Conns :
       conns[c].reader = "errored" => Len(conns[c].wire) = conns[c].at_error

\* C18: when a connection closes, its read task exits, every command task
\* spawned for it ends and its reply-writer terminates.
C18_CloseTerminates ==
    \A c \in Conns :
       (conns[c].client = "closed") ~>
          (/\ conns[c].reader # "reading"
           /\ Finished(conns[c])
           /\ conns[c].writer = "exited")

\* C19: what the commands of one connection do never keeps another
\* connection's command from being executed and replied to: a SET that finds
\* its key absent is replied to.
C19_OthersServed ==
    (SetDone /\ ~last.occupied) => last.outcome = "reply"

\* ===================================================================
\* Claims about the codec
\* ===================================================================

\* No SimpleString or Error payload of the Value holds a CR or an LF.
RECURSIVE Clean(_)
Clean(v) ==
    /\ v.tag \in {"SimpleString", "Error"} =>
          \A i \in 1..Len(v.str) : v.str[i] \notin {CR, LF}
    /\ \A i \in 1..Len(v.items) : Clean(v.items[i])

\* C22: codec round trip: decoding the encoding of a Value without CR or LF
\* in its SimpleString / Error payloads yields that Value and consumes
\* exactly the encoded length, leaving the bytes that follow in the buffer.
C22_RoundTrip ==
    (/\ codec.stage = "decoded" /\ codec.whole
     /\ codec.by = "encoder" /\ Clean(codec.value)) =>
       /\ codec.out.kind = "Some"
       /\ codec.out.value = codec.value
       /\ codec.rest = codec.tail

\* C23: decoding a proper prefix of a valid frame returns the need-more
\* signal, never a Value or a protocol error, and consumes no byte.
C23_PrefixNeedsMore ==
    (codec.stage = "decoded" /\ ~codec.whole /\ Clean(codec.value)) =>
       /\ codec.out.kind = "None"
       /\ codec.rest = codec.src

\* A prefix that ends inside a nested array child was answered with None.
C23_Witness ==
    /\ codec.stage = "decoded" /\ ~codec.whole /\ Clean(codec.value)
    /\ codec.value.tag = "Array"
    /\ \E i \in 1..Len(codec.value.items) : codec.value.items[i].tag = "Array"
    /\ Len(codec.src) = Len(codec.wire) - 1
    /\ codec.out.kind = "None"
    /\ codec.rest = codec.src

====
